---- MODULE Spec2Model ----
(***************************************************************************)
(* Model of sandbox/servers/python-basic/server.py: a single-threaded     *)
(* HTTP server that resolves its port from the environment, binds a       *)
(* listening socket, and answers every GET with one of two fixed bodies.  *)
(*                                                                         *)
(* Python str values are sequences of one-character strings, bytes values *)
(* are sequences of integers in 0..255.  Positions in the program are the *)
(* line numbers of server.py; 0 means "not running".                      *)
(***************************************************************************)
EXTENDS Integers, Sequences, FiniteSets, TLC

(***************************************************************************)
(* Bounds of the model.                                                    *)
(***************************************************************************)
\* Number of client connections that may be opened during one run.
MaxConns == 2

(***************************************************************************)
(* Characters and encodings.                                               *)
(***************************************************************************)
\* The printable ASCII characters of code points 32..95 and 97..126, in order
\* (the grave accent, code point 96, occurs in no string of the program).
Printable ==
    <<" ", "!", "\"", "#", "$", "%", "&", "'", "(", ")", "*", "+", ",", "-",
      ".", "/", "0", "1", "2", "3", "4", "5", "6", "7", "8", "9", ":", ";",
      "<", "=", ">", "?", "@", "A", "B", "C", "D", "E", "F", "G", "H", "I",
      "J", "K", "L", "M", "N", "O", "P", "Q", "R", "S", "T", "U", "V", "W",
      "X", "Y", "Z", "[", "\\", "]", "^", "_", "a", "b", "c", "d", "e", "f",
      "g", "h", "i", "j", "k", "l", "m", "n", "o", "p", "q", "r", "s", "t",
      "u", "v", "w", "x", "y", "z", "{", "|", "}", "~">>

\* ord(c)
Ord(c) ==
    IF c = "\n" THEN 10
    ELSE IF c = "\t" THEN 9
    ELSE LET i == CHOOSE j \in 1..Len(Printable) : Printable[j] = c
         IN  IF i <= 64 THEN 31 + i ELSE 32 + i

\* chr(b)
Chr(b) ==
    IF b = 10 THEN "\n"
    ELSE IF b = 9 THEN "\t"
    ELSE IF b <= 95 THEN Printable[b - 31]
    ELSE Printable[b - 32]

\* s.encode('utf-8'): every character used here is below U+0080 and encodes
\* to the single byte holding its code point.
Utf8Encode(s) == [i \in 1..Len(s) |-> Ord(s[i])]

\* len(x)
PyLen(x) == Len(x)

Digits == {"0", "1", "2", "3", "4", "5", "6", "7", "8", "9"}

RECURSIVE StrNat(_)
StrNat(n) ==
    IF n < 10 THEN <<Chr(48 + n)>>
    ELSE StrNat(n \div 10) \o <<Chr(48 + (n % 10))>>

\* str(n) and the f-string conversion {n} of an int
Str(n) == IF n < 0 THEN <<"-">> \o StrNat(0 - n) ELSE StrNat(n)

(***************************************************************************)
(* int(s): surrounding whitespace is stripped, one sign is allowed, and   *)
(* the digits may be grouped by single underscores.  Anything else raises *)
(* ValueError (ok = FALSE).                                                *)
(***************************************************************************)
IsSpace(c) == c \in {" ", "\n", "\t"}

RECURSIVE LStrip(_)
LStrip(s) ==
    IF s # <<>> /\ IsSpace(Head(s)) THEN LStrip(Tail(s)) ELSE s

RECURSIVE RStrip(_)
RStrip(s) ==
    IF s # <<>> /\ IsSpace(s[Len(s)]) THEN RStrip(SubSeq(s, 1, Len(s) - 1))
    ELSE s

Strip(s) == RStrip(LStrip(s))

ValidDigits(d) ==
    /\ d # <<>>
    /\ \A i \in 1..Len(d) : d[i] \in Digits \cup {"_"}
    /\ d[1] # "_"
    /\ d[Len(d)] # "_"
    /\ \A i \in 1..(Len(d) - 1) : ~(d[i] = "_" /\ d[i + 1] = "_")

RECURSIVE DigitsValue(_, _)
DigitsValue(d, acc) ==
    IF d = <<>> THEN acc
    ELSE IF Head(d) = "_" THEN DigitsValue(Tail(d), acc)
    ELSE DigitsValue(Tail(d), acc * 10 + (Ord(Head(d)) - 48))

PyInt(s) ==
    LET t == Strip(s)
        signed == t # <<>> /\ Head(t) \in {"+", "-"}
        d == IF signed THEN Tail(t) ELSE t
        v == DigitsValue(d, 0)
    IN  IF ValidDigits(d)
        THEN [ok |-> TRUE,
              val |-> IF signed /\ Head(t) = "-" THEN 0 - v ELSE v]
        ELSE [ok |-> FALSE, val |-> 0]

(***************************************************************************)
(* json.dumps of a flat dict.  A dict is a sequence of <<key, value>>     *)
(* pairs in insertion order; a value is a bool, a str or an int.          *)
(***************************************************************************)
JBool(b) == [t |-> "bool", b |-> b, s |-> <<>>, n |-> 0]
JStr(s) == [t |-> "str", b |-> FALSE, s |-> s, n |-> 0]
JInt(n) == [t |-> "int", b |-> FALSE, s |-> <<>>, n |-> n]

RECURSIVE JsonEscape(_)
JsonEscape(s) ==
    IF s = <<>> THEN <<>>
    ELSE (CASE Head(s) = "\"" -> <<"\\", "\"">>
            [] Head(s) = "\\" -> <<"\\", "\\">>
            [] Head(s) = "\n" -> <<"\\", "n">>
            [] Head(s) = "\t" -> <<"\\", "t">>
            [] OTHER -> <<Head(s)>>) \o JsonEscape(Tail(s))

JsonDumpsStr(s) == <<"\"">> \o JsonEscape(s) \o <<"\"">>

JsonDumpsValue(v) ==
    CASE v.t = "bool" -> IF v.b THEN <<"t", "r", "u", "e">>
                         ELSE <<"f", "a", "l", "s", "e">>
      [] v.t = "str" -> JsonDumpsStr(v.s)
      [] v.t = "int" -> Str(v.n)

RECURSIVE JsonDumpsItems(_)
JsonDumpsItems(items) ==
    IF items = <<>> THEN <<>>
    ELSE JsonDumpsStr(items[1][1]) \o <<":", " ">> \o JsonDumpsValue(items[1][2])
         \o (IF Len(items) > 1 THEN <<",", " ">> ELSE <<>>)
         \o JsonDumpsItems(Tail(items))

\* json.dumps(d) with the default separators ', ' and ': '
JsonDumps(d) == <<"{">> \o JsonDumpsItems(d) \o <<"}">>

(***************************************************************************)
(* String constants of server.py.                                          *)
(***************************************************************************)
\* the default of os.environ.get('PORT', '3300')
DEFAULT_PORT ==
    <<"3", "3", "0", "0">>

\* '/health'
HEALTH ==
    <<"/", "h", "e", "a", "l", "t", "h">>

\* 'python-basic'
SERVICE ==
    <<"p", "y", "t", "h", "o", "n", "-", "b", "a", "s", "i", "c">>

KEY_OK ==
    <<"o", "k">>

KEY_SERVICE ==
    <<"s", "e", "r", "v", "i", "c", "e">>

KEY_PORT ==
    <<"p", "o", "r", "t">>

APPLICATION_JSON ==
    <<"a", "p", "p", "l", "i", "c", "a", "t", "i", "o", "n", "/", "j", "s",
      "o", "n">>

TEXT_PLAIN ==
    <<"t", "e", "x", "t", "/", "p", "l", "a", "i", "n">>

\* 'python-basic running on '
RUNNING_ON ==
    <<"p", "y", "t", "h", "o", "n", "-", "b", "a", "s", "i", "c", " ", "r",
      "u", "n", "n", "i", "n", "g", " ", "o", "n", " ">>

\* '[python-basic]'
TAG ==
    <<"[", "p", "y", "t", "h", "o", "n", "-", "b", "a", "s", "i", "c", "]">>

\* '[python-basic] listening on http://localhost:'
LISTENING_ON ==
    <<"[", "p", "y", "t", "h", "o", "n", "-", "b", "a", "s", "i", "c", "]",
      " ", "l", "i", "s", "t", "e", "n", "i", "n", "g", " ", "o", "n", " ",
      "h", "t", "t", "p", ":", "/", "/", "l", "o", "c", "a", "l", "h", "o",
      "s", "t", ":">>


(***************************************************************************)
(* Inputs: the environment of the process and the requests of clients.    *)
(***************************************************************************)
Unset == [set |-> FALSE, val |-> <<>>]
Set(v) == [set |-> TRUE, val |-> v]

\* Values of the environment variable PORT at process start.
Environs ==
    { Unset,
      Set(<<"7">>),
      Set(<<"8", "0", "8", "0">>),
      Set(<<"6", "5", "5", "3", "5">>),
      Set(<<" ", "4", "4", "3", "\n">>),
      Set(<<"+", "8", "_", "0", "8", "3">>),
      Set(<<"0">>),
      Set(<<"7", "0", "0", "0", "0">>),
      Set(<<"-", "1">>),
      Set(<<"8", "0", "8", "0", "a">>),
      Set(<<>>) }

\* Request paths (self.path: the raw request target, query string included).
Paths ==
    { HEALTH,
      <<"/">>,
      <<"/", "h", "e", "a", "l", "t", "h", "/">>,
      <<"/", "H", "e", "a", "l", "t", "h">>,
      <<"/", "h", "e", "a", "l", "t", "h", "?", "x", "=", "1">> }

\* Ports the operating system may assign to a socket bound to port 0.
EphemeralPorts == {32768, 60999}

Conns == 1..MaxConns

(***************************************************************************)
(* State.                                                                  *)
(***************************************************************************)
VARIABLES
    environ,    \* os.environ['PORT'] of the process
    pc,         \* line of server.py the main thread is at; 0: terminated
    PORT,       \* the module global PORT: <<>> before line 6 ran, else <<n>>
    exc,        \* the uncaught exception that terminated the process, or ""
    sock,       \* port the listening socket is bound to: <<>> or <<n>>
    backlog,    \* connections completed by the kernel, not yet accepted
    stdout,     \* lines printed so far
    conns       \* per connection: its state, request and response

vars == <<environ, pc, PORT, exc, sock, backlog, stdout, conns>>

None == <<>>
Some(x) == <<x>>

\* A connection no client has opened yet.
NewConn ==
    [st |-> "new",        \* new, queued, reading, handling, closed
     path |-> <<>>,       \* self.path
     line |-> 0,          \* line of do_GET the handler is at
     body |-> <<>>,       \* the local variable body
     status |-> <<>>,     \* status codes passed to send_response
     headers |-> <<>>,    \* <<name, value>> pairs passed to send_header
     ended |-> FALSE,     \* end_headers was called
     out |-> <<>>]        \* bytes written to wfile

Init ==
    /\ environ \in Environs
    /\ pc = 6
    /\ PORT = None
    /\ exc = ""
    /\ sock = None
    /\ backlog = <<>>
    /\ stdout = <<>>
    /\ conns = [c \in Conns |-> NewConn]

(***************************************************************************)
(* Startup: lines 6 and 32-35.                                             *)
(***************************************************************************)
\* Variant: the environment is not consulted.
EnvironGetIgnored(default) == default

\* os.environ.get('PORT', default)
EnvironGet(default) == IF environ.set THEN environ.val ELSE default

\* line 6: PORT = int(os.environ.get('PORT', '3300'))
ResolvePort ==
    /\ pc = 6
    /\ LET r == PyInt(EnvironGet(DEFAULT_PORT))
       IN  IF r.ok
           THEN /\ PORT' = Some(r.val)
                /\ pc' = 33
                /\ exc' = exc
           ELSE /\ exc' = "ValueError"
                /\ pc' = 0
                /\ PORT' = PORT
    /\ UNCHANGED <<environ, sock, backlog, stdout, conns>>

\* Variant: a failed bind is caught and the program carries on.
ServerBindSwallow ==
    /\ pc = 33
    /\ \/ /\ exc' = "OSError"
          /\ sock' = sock
       \/ /\ PORT[1] \in 1..65535
          /\ sock' = Some(PORT[1])
          /\ exc' = exc
    /\ pc' = 34
    /\ UNCHANGED <<environ, PORT, backlog, stdout, conns>>

\* Variant: the startup line is printed before the socket is bound.
ServerBindAnnouncing ==
    /\ pc = 33
    /\ stdout' = Append(stdout, LISTENING_ON \o Str(PORT[1]))
    /\ \/ /\ exc' = "OSError"
          /\ pc' = 0
          /\ sock' = sock
       \/ /\ PORT[1] \in 1..65535
          /\ sock' = Some(PORT[1])
          /\ pc' = 35
          /\ exc' = exc
    /\ UNCHANGED <<environ, PORT, backlog, conns>>

\* line 33: HTTPServer(('0.0.0.0', PORT), Handler) binds and listens.  A port
\* outside 0..65535 raises OverflowError; a port that is in use or needs a
\* privilege the process lacks raises OSError; port 0 asks the operating
\* system for a free port.  Nothing catches either exception.
ServerBind ==
    /\ pc = 33
    /\ \/ /\ PORT[1] \notin 0..65535
          /\ exc' = "OverflowError"
          /\ pc' = 0
          /\ sock' = sock
       \/ /\ PORT[1] \in 0..65535
          /\ exc' = "OSError"
          /\ pc' = 0
          /\ sock' = sock
       \/ /\ PORT[1] \in 1..65535
          /\ sock' = Some(PORT[1])
          /\ pc' = 34
          /\ exc' = exc
       \/ /\ PORT[1] = 0
          /\ \E e \in EphemeralPorts : sock' = Some(e)
          /\ pc' = 34
          /\ exc' = exc
    /\ UNCHANGED <<environ, PORT, backlog, stdout, conns>>

\* line 34: print(f'[python-basic] listening on http://localhost:{PORT}')
Announce ==
    /\ pc = 34
    /\ stdout' = Append(stdout, LISTENING_ON \o Str(PORT[1]))
    /\ pc' = 35
    /\ UNCHANGED <<environ, PORT, exc, sock, backlog, conns>>

(***************************************************************************)
(* Clients and the accept loop: line 35, server.serve_forever().           *)
(***************************************************************************)
\* A client connects: the kernel completes the connection on the listening
\* socket and queues it until the server accepts it.
Connect(c) ==
    /\ sock # None
    /\ conns[c].st = "new"
    /\ conns' = [conns EXCEPT ![c].st = "queued"]
    /\ backlog' = Append(backlog, c)
    /\ UNCHANGED <<environ, pc, PORT, exc, sock, stdout>>

\* The connection the single server thread is busy with, if any.
Busy == {c \in Conns : conns[c].st \in {"reading", "handling"}}

\* Variant: every connection gets a thread of its own (ThreadingHTTPServer).
AcceptThreaded ==
    /\ pc = 35
    /\ backlog # <<>>
    /\ conns' = [conns EXCEPT ![Head(backlog)].st = "reading"]
    /\ backlog' = Tail(backlog)
    /\ UNCHANGED <<environ, pc, PORT, exc, sock, stdout>>

\* serve_forever accepts the next queued connection once the handler of the
\* previous one has returned (HTTPServer has no threading mix-in).
Accept ==
    /\ pc = 35
    /\ Busy = {}
    /\ backlog # <<>>
    /\ conns' = [conns EXCEPT ![Head(backlog)].st = "reading"]
    /\ backlog' = Tail(backlog)
    /\ UNCHANGED <<environ, pc, PORT, exc, sock, stdout>>

\* The request line and headers of an HTTP/1.x GET arrive and do_GET is
\* entered with self.path = p.  A client that stalls never lets this step
\* happen.  Requests of other methods never reach do_GET and are not modelled.
ReadRequest(c, p) ==
    /\ conns[c].st = "reading"
    /\ conns' = [conns EXCEPT ![c].st = "handling", ![c].path = p,
                              ![c].line = 11]
    /\ UNCHANGED <<environ, pc, PORT, exc, sock, backlog, stdout>>

(***************************************************************************)
(* The calls do_GET makes on the handler.                                  *)
(***************************************************************************)
At(c, l) == conns[c].st = "handling" /\ conns[c].line = l

\* self.requestline of a GET for path p
RequestLine(p) == <<"G", "E", "T", " ">> \o p
                  \o <<" ", "H", "T", "T", "P", "/", "1", ".", "1">>

\* log_message(format, *args) as called by log_request(code):
\* print('[python-basic]', '"%s" %s %s' % (requestline, str(code), '-'))
LogMessage(p, code) ==
    TAG \o <<" ">> \o <<"\"">> \o RequestLine(p) \o <<"\"", " ">>
        \o Str(code) \o <<" ", "-">>

\* self.send_response(code): logs the request and queues the status line
SendResponse(c, code, next) ==
    /\ stdout' = Append(stdout, LogMessage(conns[c].path, code))
    /\ conns' = [conns EXCEPT ![c].status = Append(@, code), ![c].line = next]
    /\ UNCHANGED <<environ, pc, PORT, exc, sock, backlog>>

\* self.send_header(name, value)
SendHeader(c, name, value, next) ==
    /\ conns' = [conns EXCEPT ![c].headers = Append(@, <<name, value>>),
                              ![c].line = next]
    /\ UNCHANGED <<environ, pc, PORT, exc, sock, backlog, stdout>>

\* self.end_headers()
EndHeaders(c, next) ==
    /\ conns' = [conns EXCEPT ![c].ended = TRUE, ![c].line = next]
    /\ UNCHANGED <<environ, pc, PORT, exc, sock, backlog, stdout>>

\* self.wfile.write(body)
Write(c, next) ==
    /\ conns' = [conns EXCEPT ![c].out = @ \o conns[c].body, ![c].line = next]
    /\ UNCHANGED <<environ, pc, PORT, exc, sock, backlog, stdout>>

\* do_GET returns and the server closes the connection.
Return(c) ==
    /\ conns' = [conns EXCEPT ![c].st = "closed", ![c].line = 0,
                              ![c].body = <<>>]
    /\ UNCHANGED <<environ, pc, PORT, exc, sock, backlog, stdout>>

SetBody(c, b, next) ==
    /\ conns' = [conns EXCEPT ![c].body = b, ![c].line = next]
    /\ UNCHANGED <<environ, pc, PORT, exc, sock, backlog, stdout>>

(***************************************************************************)
(* do_GET, the /health branch: lines 11-18.                                *)
(***************************************************************************)
\* Variant: the port is reported as a string.
HealthDictPortAsStr ==
    << <<KEY_OK, JBool(TRUE)>>,
       <<KEY_SERVICE, JStr(SERVICE)>>,
       <<KEY_PORT, JStr(Str(PORT[1]))>> >>

\* {"ok": True, "service": "python-basic", "port": PORT}
HealthDict ==
    << <<KEY_OK, JBool(TRUE)>>,
       <<KEY_SERVICE, JStr(SERVICE)>>,
       <<KEY_PORT, JInt(PORT[1])>> >>

\* Variant: the path is matched by prefix, self.path.startswith('/health').
HealthBodyPrefixMatch(c) ==
    /\ At(c, 11)
    /\ Len(conns[c].path) >= Len(HEALTH)
    /\ SubSeq(conns[c].path, 1, Len(HEALTH)) = HEALTH
    /\ SetBody(c, Utf8Encode(JsonDumps(HealthDict)), 13)

HealthBody(c) ==
    /\ At(c, 11)
    /\ conns[c].path = HEALTH
    /\ SetBody(c, Utf8Encode(JsonDumps(HealthDict)), 13)

\* Variant: send_response_only, which does not log the request.
HealthSendResponseOnly(c) ==
    /\ At(c, 13)
    /\ conns' = [conns EXCEPT ![c].status = Append(@, 200), ![c].line = 14]
    /\ UNCHANGED <<environ, pc, PORT, exc, sock, backlog, stdout>>

HealthSendResponse(c) == At(c, 13) /\ SendResponse(c, 200, 14)

HealthContentType(c) ==
    At(c, 14) /\ SendHeader(c, "Content-Type", APPLICATION_JSON, 15)

HealthContentLength(c) ==
    At(c, 15)
    /\ SendHeader(c, "Content-Length", Str(PyLen(conns[c].body)), 16)

HealthEndHeaders(c) == At(c, 16) /\ EndHeaders(c, 17)

HealthWrite(c) == At(c, 17) /\ Write(c, 18)

HealthReturn(c) == At(c, 18) /\ Return(c)

(***************************************************************************)
(* do_GET, every other path: lines 11 and 20-25.                           *)
(***************************************************************************)
\* Variant: the body counts the requests answered so far.
PlainBodyCounting(c) ==
    /\ At(c, 11)
    /\ conns[c].path # HEALTH
    /\ SetBody(c, Utf8Encode(RUNNING_ON \o Str(PORT[1]) \o <<" ">>
                     \o Str(Cardinality({d \in Conns : conns[d].st = "closed"}))
                     \o <<"\n">>), 21)

PlainBody(c) ==
    /\ At(c, 11)
    /\ conns[c].path # HEALTH
    /\ SetBody(c, Utf8Encode(RUNNING_ON \o Str(PORT[1]) \o <<"\n">>), 21)

\* Variant: unknown paths are answered 404.
PlainSendResponse404(c) == At(c, 21) /\ SendResponse(c, 404, 22)

PlainSendResponse(c) == At(c, 21) /\ SendResponse(c, 200, 22)

PlainContentType(c) ==
    At(c, 22) /\ SendHeader(c, "Content-Type", TEXT_PLAIN, 23)

\* Variant: the length is that of the body for a four-digit port.
PlainContentLengthFixed(c) ==
    At(c, 23) /\ SendHeader(c, "Content-Length", Str(Len(RUNNING_ON) + 5), 24)

PlainContentLength(c) ==
    At(c, 23)
    /\ SendHeader(c, "Content-Length", Str(PyLen(conns[c].body)), 24)

PlainEndHeaders(c) == At(c, 24) /\ EndHeaders(c, 25)

PlainWrite(c) == At(c, 25) /\ Write(c, 26)

PlainReturn(c) == At(c, 26) /\ Return(c)

do_GET(c) ==
    \/ HealthBody(c)
    \/ HealthSendResponse(c)
    \/ HealthContentType(c)
    \/ HealthContentLength(c)
    \/ HealthEndHeaders(c)
    \/ HealthWrite(c)
    \/ HealthReturn(c)
    \/ PlainBody(c)
    \/ PlainSendResponse(c)
    \/ PlainContentType(c)
    \/ PlainContentLength(c)
    \/ PlainEndHeaders(c)
    \/ PlainWrite(c)
    \/ PlainReturn(c)

Next ==
    \/ ResolvePort
    \/ ServerBind
    \/ Announce
    \/ \E c \in Conns : Connect(c)
    \/ Accept
    \/ \E c \in Conns, p \in Paths : ReadRequest(c, p)
    \/ \E c \in Conns : do_GET(c)

Spec == Init /\ [][Next]_vars

(***************************************************************************)
(* What a client reads from a response.                                    *)
(***************************************************************************)
\* bytes.decode('utf-8') of ASCII bytes
Utf8Decode(b) == [i \in 1..Len(b) |-> Chr(b[i])]

RECURSIVE Pow10(_)
Pow10(k) == IF k = 0 THEN 1 ELSE 10 * Pow10(k - 1)

RECURSIVE WeightedSum(_, _)
WeightedSum(d, i) ==
    IF i > Len(d) THEN 0
    ELSE (Ord(d[i]) - 48) * Pow10(Len(d) - i) + WeightedSum(d, i + 1)

\* The number a string of decimal digits denotes.
IntegerValue(d) == WeightedSum(d, 1)

\* d is the decimal numeral of a natural number: digits, no leading zero.
IsNumeral(d) ==
    /\ d # <<>>
    /\ \A i \in 1..Len(d) : d[i] \in Digits
    /\ (Len(d) > 1 => d[1] # "0")

HasPrefix(s, i, w) ==
    /\ i + Len(w) - 1 <= Len(s)
    /\ SubSeq(s, i, i + Len(w) - 1) = w

RECURSIVE SkipWs(_, _)
SkipWs(s, i) ==
    IF i <= Len(s) /\ IsSpace(s[i]) THEN SkipWs(s, i + 1) ELSE i

RECURSIVE SkipDigits(_, _)
SkipDigits(s, i) ==
    IF i <= Len(s) /\ s[i] \in Digits THEN SkipDigits(s, i + 1) ELSE i

JsonBad == [ok |-> FALSE, val |-> JInt(0), next |-> 0]

\* The characters of a JSON string whose opening quote precedes position i.
RECURSIVE JsonScanStr(_, _, _)
JsonScanStr(s, i, acc) ==
    IF i > Len(s) THEN JsonBad
    ELSE IF s[i] = "\"" THEN [ok |-> TRUE, val |-> JStr(acc), next |-> i + 1]
    ELSE IF s[i] = "\\"
         THEN IF i + 1 <= Len(s) /\ s[i + 1] \in {"\"", "\\", "n", "t"}
              THEN JsonScanStr(s, i + 2,
                       Append(acc, CASE s[i + 1] = "n" -> "\n"
                                     [] s[i + 1] = "t" -> "\t"
                                     [] OTHER -> s[i + 1]))
              ELSE JsonBad
    ELSE JsonScanStr(s, i + 1, Append(acc, s[i]))

JsonParseNumber(s, i) ==
    LET neg == s[i] = "-"
        from == IF neg THEN i + 1 ELSE i
        to == SkipDigits(s, from)
        d == SubSeq(s, from, to - 1)
    IN  IF IsNumeral(d)
        THEN [ok |-> TRUE,
              val |-> JInt(IF neg THEN 0 - IntegerValue(d) ELSE IntegerValue(d)),
              next |-> to]
        ELSE JsonBad

\* The JSON value starting at position i of s.
JsonParseValue(s, i) ==
    IF i > Len(s) THEN JsonBad
    ELSE IF s[i] = "\"" THEN JsonScanStr(s, i + 1, <<>>)
    ELSE IF HasPrefix(s, i, <<"t", "r", "u", "e">>)
         THEN [ok |-> TRUE, val |-> JBool(TRUE), next |-> i + 4]
    ELSE IF HasPrefix(s, i, <<"f", "a", "l", "s", "e">>)
         THEN [ok |-> TRUE, val |-> JBool(FALSE), next |-> i + 5]
    ELSE IF s[i] \in Digits \cup {"-"} THEN JsonParseNumber(s, i)
    ELSE JsonBad

\* The members of a JSON object from position i (a key is expected there)
\* up to and including the closing brace.
RECURSIVE JsonParseMembers(_, _, _)
JsonParseMembers(s, i, acc) ==
    LET k == JsonParseValue(s, SkipWs(s, i))
        colon == IF k.ok THEN SkipWs(s, k.next) ELSE 0
        v == IF k.ok /\ k.val.t = "str" /\ colon <= Len(s) /\ s[colon] = ":"
             THEN JsonParseValue(s, SkipWs(s, colon + 1))
             ELSE JsonBad
        after == IF v.ok THEN SkipWs(s, v.next) ELSE 0
        members == Append(acc, <<k.val.s, v.val>>)
    IN  IF ~v.ok \/ after > Len(s) THEN [ok |-> FALSE, obj |-> <<>>, next |-> 0]
        ELSE IF s[after] = "}"
             THEN [ok |-> TRUE, obj |-> members, next |-> after + 1]
        ELSE IF s[after] = ","
             THEN JsonParseMembers(s, after + 1, members)
        ELSE [ok |-> FALSE, obj |-> <<>>, next |-> 0]

\* json.loads(s) for a flat object: ok and the <<key, value>> members, or not ok.
JsonLoads(s) ==
    LET open == SkipWs(s, 1)
        first == IF open <= Len(s) THEN SkipWs(s, open + 1) ELSE 0
        r == IF open > Len(s) \/ s[open] # "{"
             THEN [ok |-> FALSE, obj |-> <<>>, next |-> 0]
             ELSE IF first <= Len(s) /\ s[first] = "}"
                  THEN [ok |-> TRUE, obj |-> <<>>, next |-> first + 1]
             ELSE JsonParseMembers(s, open + 1, <<>>)
    IN  IF r.ok /\ SkipWs(s, r.next) = Len(s) + 1
        THEN [ok |-> TRUE, obj |-> r.obj]
        ELSE [ok |-> FALSE, obj |-> <<>>]

\* The values of the headers called name, in the order they were sent.
HeaderValues(c, name) ==
    LET h == conns[c].headers
        idx == {i \in 1..Len(h) : h[i][1] = name}
    IN  {<<i, h[i][2]>> : i \in idx}

\* The connection was answered: the handler returned and the server closed it.
Answered(c) == conns[c].st = "closed"

\* The body is the JSON health object for port p.
IsHealthBody(b, p) ==
    LET j == JsonLoads(Utf8Decode(b))
    IN  /\ j.ok
        /\ Len(j.obj) = 3
        /\ {j.obj[i] : i \in 1..3} =
               { <<KEY_OK, JBool(TRUE)>>,
                 <<KEY_SERVICE, JStr(SERVICE)>>,
                 <<KEY_PORT, JInt(p)>> }

\* The body is the text "python-basic running on <p>\n".
IsPlainBody(b, p) ==
    LET t == Utf8Decode(b)
        n == Len(RUNNING_ON)
        d == SubSeq(t, n + 1, Len(t) - 1)
    IN  /\ Len(t) >= n + 2
        /\ SubSeq(t, 1, n) = RUNNING_ON
        /\ t[Len(t)] = "\n"
        /\ IsNumeral(d)
        /\ IntegerValue(d) = p

(***************************************************************************)
(* C1: every answered GET whose path is exactly /health got status 200,   *)
(* Content-Type: application/json, and a JSON body that deserializes to   *)
(* an object with exactly the fields ok = true, service = "python-basic"  *)
(* and port = the configured port as an integer.                           *)
(***************************************************************************)
C1_HealthResponse ==
    \A c \in Conns :
        Answered(c) /\ conns[c].path = HEALTH =>
            /\ conns[c].status = <<200>>
            /\ {v[2] : v \in HeaderValues(c, "Content-Type")} = {APPLICATION_JSON}
            /\ Cardinality(HeaderValues(c, "Content-Type")) = 1
            /\ conns[c].ended
            /\ IsHealthBody(conns[c].out, PORT[1])

C1_Witness ==
    \E c \in Conns :
        Answered(c) /\ conns[c].path = HEALTH /\ PORT = Some(65535)

(***************************************************************************)
(* C2: every answered GET whose path is not exactly /health (so also /,   *)
(* /health/, /Health and /health?x=1) got status 200, Content-Type:       *)
(* text/plain and the body "python-basic running on <port>\n", and never  *)
(* the JSON health body.                                                   *)
(***************************************************************************)
C2_PlainResponse ==
    \A c \in Conns :
        Answered(c) /\ conns[c].path # HEALTH =>
            /\ conns[c].status = <<200>>
            /\ {v[2] : v \in HeaderValues(c, "Content-Type")} = {TEXT_PLAIN}
            /\ Cardinality(HeaderValues(c, "Content-Type")) = 1
            /\ conns[c].ended
            /\ IsPlainBody(conns[c].out, PORT[1])
            /\ ~JsonLoads(Utf8Decode(conns[c].out)).ok

C2_Witness ==
    /\ \E c \in Conns :
           /\ Answered(c)
           /\ conns[c].path = <<"/", "h", "e", "a", "l", "t", "h", "?", "x", "=", "1">>
    /\ \E c \in Conns :
           Answered(c) /\ conns[c].path = <<"/", "H", "e", "a", "l", "t", "h">>
    /\ PORT = Some(7)

(***************************************************************************)
(* C3: on both branches and for every port, a response carries exactly    *)
(* one Content-Length header, sent before the headers end, and its value  *)
(* is the exact byte length of the body written after it.                 *)
(***************************************************************************)
ContentLengthIs(c, n) ==
    /\ Cardinality(HeaderValues(c, "Content-Length")) = 1
    /\ \A v \in HeaderValues(c, "Content-Length") :
           IsNumeral(v[2]) /\ IntegerValue(v[2]) = n

\* C3: one Content-Length header per response, equal to the byte length of
\* the body written after it.
C3_ContentLengthExact ==
    \A c \in Conns :
        /\ Cardinality(HeaderValues(c, "Content-Length")) <= 1
        /\ (conns[c].out # <<>> => conns[c].ended)
        /\ (conns[c].ended /\ conns[c].out = <<>> =>
                ContentLengthIs(c, Len(conns[c].body)))
        /\ (conns[c].out # <<>> => ContentLengthIs(c, Len(conns[c].out)))
        /\ (Answered(c) => conns[c].out # <<>>)

C3_Witness ==
    /\ \E c \in Conns : Answered(c) /\ conns[c].path = HEALTH
    /\ \E c \in Conns : Answered(c) /\ conns[c].path = <<"/">>
    /\ PORT = Some(7)

(***************************************************************************)
(* C4 as stated: the configured port is 3300 when PORT is unset and the   *)
(* integer value of PORT when PORT is a valid integer string; the         *)
(* listening socket is bound to that port, and the same value is in the   *)
(* health body and in the plain-text body.                                 *)
(***************************************************************************)
\* The integer a string denotes: optional surrounding whitespace, an optional
\* sign, digits that single underscores may group.
IntegerString(s) ==
    LET t == Strip(s)
        signed == t # <<>> /\ Head(t) \in {"+", "-"}
        d == IF signed THEN Tail(t) ELSE t
        n == IntegerValue(SelectSeq(d, LAMBDA ch : ch # "_"))
    IN  [valid |-> ValidDigits(d),
         value |-> IF signed /\ Head(t) = "-" THEN 0 - n ELSE n]

ResolvedFromEnviron ==
    /\ (~environ.set /\ pc # 6 => PORT = Some(3300))
    /\ (environ.set /\ IntegerString(environ.val).valid /\ pc # 6 =>
            PORT = Some(IntegerString(environ.val).value))
    /\ (PORT # None =>
            \/ ~environ.set
            \/ IntegerString(environ.val).valid)

BodiesCarryPort ==
    \A c \in Conns :
        Answered(c) =>
            IF conns[c].path = HEALTH
            THEN IsHealthBody(conns[c].out, PORT[1])
            ELSE IsPlainBody(conns[c].out, PORT[1])

\* C4 as stated: the listening socket is bound to the configured port.
C4_BindsConfiguredPort ==
    /\ ResolvedFromEnviron
    /\ (sock # None => sock = PORT)
    /\ BodiesCarryPort

(***************************************************************************)
(* C4 amended: the configured port is 3300 when PORT is unset and the     *)
(* integer value of PORT when PORT is a valid integer string.  A socket   *)
(* is only ever bound when that value is in 0..65535: to that very port   *)
(* when it is in 1..65535, and to a port the operating system assigns     *)
(* when it is 0.  The configured value, not the bound port, is what the   *)
(* health body and the plain-text body carry.                              *)
(***************************************************************************)
\* C4 amended: bound to the configured port when it is in 1..65535, to a
\* port of the operating system's choosing when it is 0, never otherwise.
C4_BindsPortInRange ==
    /\ ResolvedFromEnviron
    /\ (sock # None =>
            /\ PORT[1] \in 0..65535
            /\ (PORT[1] # 0 => sock = PORT)
            /\ (PORT[1] = 0 => sock[1] \in 1..65535))
    /\ (PORT # None /\ PORT[1] \notin 0..65535 /\ pc # 33 =>
            exc = "OverflowError")
    /\ BodiesCarryPort

C4_Witness ==
    /\ environ.set
    /\ sock = PORT
    /\ PORT = Some(8083)
    /\ \E c \in Conns : Answered(c)

(***************************************************************************)
(* C5: whatever the path, a GET that reaches the handler is answered with *)
(* status 200; no status other than 200 and no body other than one of the *)
(* two success bodies is ever produced.                                    *)
(***************************************************************************)
C5_Always200 ==
    \A c \in Conns :
        /\ conns[c].status \in {<<>>, <<200>>}
        /\ \/ conns[c].out = <<>>
           \/ IsHealthBody(conns[c].out, PORT[1])
           \/ IsPlainBody(conns[c].out, PORT[1])
        /\ (conns[c].ended \/ Answered(c) => conns[c].status = <<200>>)
        /\ (Answered(c) => conns[c].out # <<>>)

C5_Witness ==
    /\ \E c \in Conns : Answered(c) /\ conns[c].path = HEALTH
    /\ \E c \in Conns :
           /\ Answered(c)
           /\ conns[c].path = <<"/", "h", "e", "a", "l", "t", "h", "/">>

(***************************************************************************)
(* C6: requests are handled strictly serially.  At most one connection is *)
(* being handled at any moment; a connection is accepted only when every  *)
(* connection accepted before it has its complete response and is closed; *)
(* and while a connection is being handled (its request possibly stalled  *)
(* and unfinished) no other connection is accepted or answered.           *)
(***************************************************************************)
Accepted(c) == conns[c].st \in {"reading", "handling", "closed"}

ResponseComplete(c) ==
    /\ conns[c].status # <<>>
    /\ conns[c].ended
    /\ conns[c].out # <<>>

OneAtATime ==
    /\ Cardinality(Busy) <= 1
    /\ \A c \in Conns : Answered(c) => ResponseComplete(c)

NoOvertaking ==
    \A c \in Conns :
        /\ (~Accepted(c) /\ conns'[c].st \in {"reading", "handling", "closed"} =>
                \A d \in Conns \ {c} :
                    Accepted(d) => Answered(d) /\ ResponseComplete(d))
        /\ (c \in Busy => \A d \in Conns \ {c} :
                /\ conns'[d].st \in {"reading", "handling", "closed"} =>
                       conns'[d] = conns[d]
                /\ conns'[d].out = conns[d].out)

\* C6: one connection at a time, and none overtakes the one being handled.
C6_SerialHandling == []OneAtATime /\ [][NoOvertaking]_vars

C6_Witness ==
    \E c, d \in Conns :
        /\ conns[c].st = "reading"
        /\ conns[d].st = "queued"
        /\ pc = 35

(***************************************************************************)
(* C7: when the listening socket cannot be bound the process terminates   *)
(* before serving: nothing is printed, no connection is ever accepted or  *)
(* handled, the bind is not tried again and the accept loop is never      *)
(* entered.                                                                *)
(***************************************************************************)
BindFailed == exc \in {"OSError", "OverflowError"}

DeadBeforeServing ==
    BindFailed =>
        /\ pc = 0
        /\ sock = None
        /\ stdout = <<>>
        /\ backlog = <<>>
        /\ \A c \in Conns : conns[c] = NewConn

\* C7: a failed bind ends the process before it prints, accepts or retries.
C7_BindFailureIsFatal ==
    []DeadBeforeServing /\ [][BindFailed => UNCHANGED <<pc, sock, exc>>]_vars

C7_Witness == exc = "OSError" /\ PORT = Some(8080)

(***************************************************************************)
(* C8: the response depends only on the request path and the configured   *)
(* port.  The configured port and the environment it came from never      *)
(* change once resolved, and within a run any two answered requests for   *)
(* the same path got the identical status, headers and body, whatever was *)
(* requested before them.                                                  *)
(***************************************************************************)
SamePathSameResponse ==
    \A c, d \in Conns :
        Answered(c) /\ Answered(d) /\ conns[c].path = conns[d].path =>
            /\ conns[c].status = conns[d].status
            /\ conns[c].headers = conns[d].headers
            /\ conns[c].out = conns[d].out

IsLogFor(l, p) ==
    /\ HasPrefix(l, 1, TAG \o <<" ">>)
    /\ HasPrefix(l, Len(TAG) + 2, <<"\"">> \o RequestLine(p) \o <<"\"", " ">>)

IsStartupLine(l) == HasPrefix(l, 1, LISTENING_ON)

StatusSent(c) == conns[c].status # <<>>

\* C9: one tagged log line per handled request, printed with the status line.
C9_OneLogLinePerRequest ==
    /\ \A i \in 1..Len(stdout) : HasPrefix(stdout[i], 1, TAG)
    /\ \A p \in Paths :
           Cardinality({i \in 1..Len(stdout) : IsLogFor(stdout[i], p)}) =
           Cardinality({c \in Conns : StatusSent(c) /\ conns[c].path = p})
    /\ Cardinality({i \in 1..Len(stdout) : ~IsStartupLine(stdout[i])}) =
       Cardinality({c \in Conns : StatusSent(c)})
    /\ \A c \in Conns :
           /\ (conns[c].headers # <<>> \/ conns[c].ended \/ conns[c].out # <<>>
                   => StatusSent(c))
           /\ (Answered(c) => StatusSent(c))

C9_Witness ==
    \E c \in Conns :
        /\ At(c, 22)
        /\ conns[c].headers = <<>>
        /\ \E i \in 1..Len(stdout) : IsLogFor(stdout[i], conns[c].path)
        /\ \E d \in Conns : Answered(d) /\ conns[d].path = HEALTH

(***************************************************************************)
(* C10: one startup line announcing http://localhost:<PORT> is printed    *)
(* per run: only after the socket was bound (never when the bind failed), *)
(* and before any request is handled.                                      *)
(***************************************************************************)
StartupLines == {i \in 1..Len(stdout) : IsStartupLine(stdout[i])}

AnnouncesPort(l) ==
    LET d == SubSeq(l, Len(LISTENING_ON) + 1, Len(l))
    IN  IsStartupLine(l) /\ IsNumeral(d) /\ IntegerValue(d) = PORT[1]

\* C10: one startup line, after a successful bind and before any request.
C10_StartupLine ==
    /\ Cardinality(StartupLines) <= 1
    /\ (StartupLines # {} =>
            /\ StartupLines = {1}
            /\ AnnouncesPort(stdout[1])
            /\ sock # None)
    /\ (pc = 35 => StartupLines = {1})
    /\ (exc # "" => StartupLines = {})
    /\ \A c \in Conns : Accepted(c) => StartupLines = {1}

C10_Witness ==
    /\ StartupLines = {1}
    /\ Len(stdout) >= 2
    /\ \E c \in Conns : Answered(c)

====
